---- MODULE Spec2Model ----
(***************************************************************************)
(* The request handlers of app/main.py (upload_document, list_documents,   *)
(* delete_document, ask, secure_route) with the bearer check of            *)
(* app/auth.py, as concurrent tasks of one asyncio event loop.  A task     *)
(* runs without interruption from one `await` to the next, so every action *)
(* below is the code of one handler between two awaits.                    *)
(*                                                                         *)
(* Collaborators: the documents table (app/models.py), the upload          *)
(* directory, the langchain_documents table behind the vector store, the   *)
(* LLM.  A select on the documents table returns; a commit, the PDF parse, *)
(* the vector store and the LLM call may each fail, which is a             *)
(* nondeterministic choice of the action.                                  *)
(***************************************************************************)
EXTENDS Integers, Sequences, FiniteSets

\* ---------------------------------------------------------------- bounds
NumProcs == 2       \* requests in flight at once
MaxId == 2          \* primary keys the documents table hands out
TopK == 1           \* rows a similarity search returns at most

Procs == 1..NumProcs
Ids == 1..MaxId
Names == {"a.pdf", "b.pdf"}
Contents == {"", "%PDF"}
\* what extract_text_from_pdf returns: no text, or a text shorter than chunk_size
Texts == {"", "text"}

UPLOAD_DIR == "./uploads"
SECRET_TOKEN == "s3cret"
NoCred == [scheme |-> "", credentials |-> ""]
Creds == {NoCred,
          [scheme |-> "Basic", credentials |-> SECRET_TOKEN],
          [scheme |-> "Bearer", credentials |-> "wrong"],
          [scheme |-> "Bearer", credentials |-> SECRET_TOKEN]}

VARIABLES
    docs,       \* rows of the documents table: [id, filename, filepath]
    nextId,     \* the next primary key of the documents table
    files,      \* paths present under UPLOAD_DIR
    index,      \* rows of langchain_documents: [page_content, metadata]
    uploaded,   \* log of line 153: the {id, filename} uploads returned with success
    removed,    \* log: ids whose file delete_document has taken off storage
    deleted,    \* log: ids for which delete_document returned "Document deleted"
    pc,         \* where each request is
    req,        \* what each request in flight carries
    loc,        \* the handler's locals
    out         \* the response the step just taken sent, NoResp when it sent none

store == <<docs, nextId, files, index>>
logs == <<uploaded, removed, deleted>>
vars == <<docs, nextId, files, index, uploaded, removed, deleted, pc, req, loc, out>>

\* ------------------------------------------------------------ requests
NoReq == [kind |-> "none", cred |-> NoCred, filename |-> "", contents |-> "", doc_id |-> 0]
NoLoc == [doc |-> 0, path |-> <<>>, docs |-> {}, answer |-> ""]
\* A response, with what the handler logged on the way: error is the call whose
\* exception lines 160, 184 and 219 log, ndocs the count that lines 200-203 log
\* (-1 when they were not reached).
NoResp == [kind |-> "none", code |-> 0, detail |-> "", error |-> "", id |-> 0,
           filename |-> "", list |-> {}, answer |-> "", sources |-> <<>>, ndocs |-> -1]

Requests ==
    {[NoReq EXCEPT !.kind = "upload", !.cred = c, !.filename = f, !.contents = b] :
        c \in Creds, f \in Names, b \in Contents}
    \cup {[NoReq EXCEPT !.kind = "delete", !.cred = c, !.doc_id = i] : c \in Creds, i \in Ids}
    \cup {[NoReq EXCEPT !.kind = k, !.cred = c] : c \in Creds, k \in {"list", "ask", "secure"}}

HTTPException(code, detail) == [NoResp EXCEPT !.code = code, !.detail = detail]

\* str.lower() on the schemes a request can carry
Lower(s) == IF s = "Bearer" THEN "bearer" ELSE IF s = "Basic" THEN "basic" ELSE s

TokenAccepted(token) == TRUE

TokenMatches(token) == token = SECRET_TOKEN

\* BearerTokenAuth.__call__: HTTPBearer (auto_error) refuses a missing header
\* and a scheme other than bearer; the token is compared with SECRET_TOKEN.
BearerTokenAuth(cred) ==
    IF cred = NoCred THEN HTTPException(403, "Not authenticated")
    ELSE IF Lower(cred.scheme) # "bearer"
        THEN HTTPException(403, "Invalid authentication credentials")
    ELSE IF ~TokenMatches(cred.credentials)
        THEN HTTPException(401, "Invalid or missing token")
    ELSE NoResp

Entry(kind) ==
    CASE kind = "upload" -> "up_check"
      [] kind = "list" -> "list"
      [] kind = "delete" -> "del_select"
      [] kind = "ask" -> "ask_vs"
      [] kind = "secure" -> "secure"

Idle(p) == pc[p] = "idle"

\* uploads that may still insert a row
Pending == Cardinality({p \in Procs : req[p].kind = "upload"})

\* the handler returns or raises: the response goes out, the task is gone
Finish(p, r) ==
    /\ pc' = [pc EXCEPT ![p] = "idle"]
    /\ out' = [r EXCEPT !.kind = req[p].kind]
    /\ req' = [req EXCEPT ![p] = NoReq]
    /\ loc' = [loc EXCEPT ![p] = NoLoc]

\* the handler goes on to its next await with locals l
Goto(p, label, l) ==
    /\ pc' = [pc EXCEPT ![p] = label]
    /\ loc' = [loc EXCEPT ![p] = l]
    /\ out' = NoResp
    /\ UNCHANGED req

\* ----------------------------------------------------------------- Init
Init ==
    /\ docs = {}
    /\ nextId = 1
    /\ files = {}
    /\ index = {}
    /\ uploaded = {}
    /\ removed = {}
    /\ deleted = {}
    /\ pc = [p \in Procs |-> "idle"]
    /\ req = [p \in Procs |-> NoReq]
    /\ loc = [p \in Procs |-> NoLoc]
    /\ out = NoResp

\* A request arrives and its dependencies are solved: Security(auth_scheme)
\* raises before the handler body is entered.  Tasks have no identity of
\* their own: a new request takes the lowest free slot.
Receive(p) ==
    /\ Idle(p)
    /\ \A q \in Procs : q < p => ~Idle(q)
    /\ \E r \in Requests :
        /\ r.kind = "upload" => nextId + Pending <= MaxId
        /\ LET a == BearerTokenAuth(r.cred) IN
            IF a.code # 0
                THEN /\ out' = [a EXCEPT !.kind = r.kind]
                     /\ UNCHANGED <<pc, req, loc>>
                ELSE /\ pc' = [pc EXCEPT ![p] = Entry(r.kind)]
                     /\ req' = [req EXCEPT ![p] = r]
                     /\ out' = NoResp
                     /\ UNCHANGED loc
    /\ UNCHANGED <<store, logs>>

\* secure_route
SecureRoute(p) ==
    /\ pc[p] = "secure"
    /\ Finish(p, [NoResp EXCEPT !.code = 200, !.detail = "Access granted"])
    /\ UNCHANGED <<store, logs>>

\* ------------------------------------------------------ upload_document
\* os.path.join(UPLOAD_DIR, filename)
FilePath(filename) == <<UPLOAD_DIR, filename>>

NeverExisting(D, filename) == FALSE

\* select(DBDocument).where(DBDocument.filename == filename), scalar_one_or_none
ExistingDoc(D, filename) == \E d \in D : d.filename = filename

NoUniqueViolation(D, filename) == FALSE

\* Column(String, unique=True): the insert of a second row with the filename fails
UniqueViolation(D, filename) == \E d \in D : d.filename = filename

NeverEmpty(contents) == FALSE

\* if not contents
EmptyUpload(contents) == contents = ""

\* open(file_path, "wb"); f.write(contents)
WriteFile(fs, path) == fs \cup {path}

\* except Exception: if os.path.exists(file_path): os.remove(file_path)
Cleanup(fs, path) == fs \ {path}

\* chunk_text on a text shorter than chunk_size, and the Documents of line 138
ChunkDocs(text, filename) ==
    IF text = "" THEN {}
    ELSE {[page_content |-> text, metadata |-> [filename |-> filename]]}

InternalError(call) == [HTTPException(500, "Internal Server Error") EXCEPT !.error = call]

\* lines 157-161
Fail(p, call) ==
    /\ files' = Cleanup(files, FilePath(req[p].filename))
    /\ Finish(p, InternalError(call))

\* lines 121-128: the duplicate check
UploadCheck(p) ==
    /\ pc[p] = "up_check"
    /\ IF ExistingDoc(docs, req[p].filename)
        THEN Finish(p, HTTPException(400, "Document already exists"))
        ELSE Goto(p, "up_read", loc[p])
    /\ UNCHANGED <<store, logs>>

\* lines 131-141: the bytes are read; empty bytes are refused; the file is
\* written, parsed and chunked, and the row is added to the session
UploadRead(p) ==
    /\ pc[p] = "up_read"
    /\ IF EmptyUpload(req[p].contents)
        THEN /\ Finish(p, HTTPException(400, "Uploaded file is empty"))
             /\ UNCHANGED files
        ELSE LET path == FilePath(req[p].filename) IN
             \E parsed \in BOOLEAN, text \in Texts :
                IF parsed
                    THEN /\ files' = WriteFile(files, path)
                         /\ Goto(p, "up_commit",
                                 [loc[p] EXCEPT !.docs = ChunkDocs(text, req[p].filename)])
                    ELSE /\ files' = Cleanup(WriteFile(files, path), path)
                         /\ Finish(p, InternalError("extract_text_from_pdf"))
    /\ UNCHANGED <<docs, nextId, index, logs>>

\* line 142: db.commit()
UploadCommit(p) ==
    /\ pc[p] = "up_commit"
    /\ \E ok \in BOOLEAN :
        IF ok /\ ~UniqueViolation(docs, req[p].filename)
            THEN /\ docs' = docs \cup {[id |-> nextId, filename |-> req[p].filename,
                                        filepath |-> FilePath(req[p].filename)]}
                 /\ nextId' = nextId + 1
                 /\ Goto(p, "up_refresh", [loc[p] EXCEPT !.doc = nextId])
                 /\ UNCHANGED files
            ELSE /\ Fail(p, "commit")
                 /\ UNCHANGED <<docs, nextId>>
    /\ UNCHANGED <<index, logs>>

\* line 143: db.refresh(doc) raises when the row is gone
UploadRefresh(p) ==
    /\ pc[p] = "up_refresh"
    /\ IF \E d \in docs : d.id = loc[p].doc
        THEN Goto(p, "up_vs", loc[p]) /\ UNCHANGED files
        ELSE Fail(p, "refresh")
    /\ UNCHANGED <<docs, nextId, index, logs>>

UploadGetVSKeepsFile(p) ==
    /\ pc[p] = "up_vs"
    /\ \E ok \in BOOLEAN :
        IF ok THEN Goto(p, "up_add", loc[p])
        ELSE Finish(p, InternalError("get_vectorstore"))
    /\ UNCHANGED <<store, logs>>

\* line 145: get_vectorstore()
UploadGetVS(p) ==
    /\ pc[p] = "up_vs"
    /\ \E ok \in BOOLEAN :
        IF ok THEN Goto(p, "up_add", loc[p]) /\ UNCHANGED files
        ELSE Fail(p, "get_vectorstore")
    /\ UNCHANGED <<docs, nextId, index, logs>>

\* lines 147-154: aadd_documents(docs) and the response
UploadAdd(p) ==
    /\ pc[p] = "up_add"
    /\ \E ok \in BOOLEAN :
        IF ok
            THEN /\ index' = index \cup loc[p].docs
                 /\ uploaded' = uploaded \cup {[id |-> loc[p].doc, filename |-> req[p].filename]}
                 /\ Finish(p, [NoResp EXCEPT !.code = 200, !.id = loc[p].doc,
                                             !.filename = req[p].filename])
                 /\ UNCHANGED files
            ELSE /\ Fail(p, "aadd_documents")
                 /\ UNCHANGED <<index, uploaded>>
    /\ UNCHANGED <<docs, nextId, removed, deleted>>

\* ------------------------------------------------------- list_documents
ListDocuments(p) ==
    /\ pc[p] = "list"
    /\ Finish(p, [NoResp EXCEPT !.code = 200, !.list = {d.id : d \in docs}])
    /\ UNCHANGED <<store, logs>>

\* ------------------------------------------------------ delete_document
\* lines 173-176
DeleteSelect(p) ==
    /\ pc[p] = "del_select"
    /\ IF \E d \in docs : d.id = req[p].doc_id
        THEN LET doc == CHOOSE d \in docs : d.id = req[p].doc_id IN
             Goto(p, "del_remove", [loc[p] EXCEPT !.doc = doc.id, !.path = doc.filepath])
        ELSE Finish(p, HTTPException(404, "Document not found"))
    /\ UNCHANGED <<store, logs>>

\* if os.path.exists(doc.filepath): os.remove(doc.filepath)
RemoveFile(fs, path) == fs \ {path}

\* lines 178-180: the file goes first
DeleteRemove(p) ==
    /\ pc[p] = "del_remove"
    /\ files' = RemoveFile(files, loc[p].path)
    /\ removed' = removed \cup {loc[p].doc}
    /\ Goto(p, "del_commit", loc[p])
    /\ UNCHANGED <<docs, nextId, index, uploaded, deleted>>

KeepRow(D, id) == D

\* db.delete(doc), committed
DeleteRow(D, id) == {d \in D : d.id # id}

\* lines 181-185: db.commit()
DeleteCommit(p) ==
    /\ pc[p] = "del_commit"
    /\ \E ok \in BOOLEAN :
        IF ok
            THEN /\ docs' = DeleteRow(docs, loc[p].doc)
                 /\ deleted' = deleted \cup {loc[p].doc}
                 /\ Finish(p, [NoResp EXCEPT !.code = 200, !.detail = "Document deleted"])
            ELSE /\ Finish(p, InternalError("commit"))
                 /\ UNCHANGED <<docs, deleted>>
    /\ UNCHANGED <<nextId, files, index, uploaded, removed>>

\* ------------------------------------------------------------------ ask
Placeholder == "No relevant answer found."
QueryError(call) == [HTTPException(500, "Failed to process your query.") EXCEPT !.error = call]

\* what the chain hands back: "" stands for a key that is missing or empty
ChainResults == [result : {"", "generated"}, answer : {"", "other"}]

AnswerNoFallback(result) == IF result.result # "" THEN result.result ELSE result.answer

\* result.get("result") or result.get("answer") or "No relevant answer found."
Answer(result) ==
    IF result.result # "" THEN result.result
    ELSE IF result.answer # "" THEN result.answer
    ELSE Placeholder

Min(a, b) == IF a < b THEN a ELSE b

\* asimilarity_search: the nearest rows, TopK of them at most
Hits(I) ==
    {s \in [1..Min(TopK, Cardinality(I)) -> I] :
        \A i, j \in DOMAIN s : i # j => s[i] # s[j]}

\* lines 205-214
SourceOf(doc) ==
    IF DOMAIN doc.metadata = {} THEN ""
    ELSE IF "filename" \notin DOMAIN doc.metadata THEN ""
    ELSE doc.metadata.filename

Sources(found) == [i \in DOMAIN found |-> SourceOf(found[i])]

\* lines 192-195
AskGetVS(p) ==
    /\ pc[p] = "ask_vs"
    /\ \E ok \in BOOLEAN :
        IF ok THEN Goto(p, "ask_chain", loc[p]) ELSE Finish(p, QueryError("get_vectorstore"))
    /\ UNCHANGED <<store, logs>>

\* lines 196-197
AskChain(p) ==
    /\ pc[p] = "ask_chain"
    /\ \E ok \in BOOLEAN, result \in ChainResults :
        IF ok THEN Goto(p, "ask_search", [loc[p] EXCEPT !.answer = Answer(result)])
        ELSE Finish(p, QueryError("ainvoke"))
    /\ UNCHANGED <<store, logs>>

\* lines 199-217
AskSearch(p) ==
    /\ pc[p] = "ask_search"
    /\ \E ok \in BOOLEAN, found \in Hits(index) :
        IF ok
            THEN Finish(p, [NoResp EXCEPT !.code = 200, !.answer = loc[p].answer,
                                          !.sources = Sources(found),
                                          !.ndocs = Len(found)])
            ELSE Finish(p, QueryError("asimilarity_search"))
    /\ UNCHANGED <<store, logs>>

\* ----------------------------------------------------------------- Next
Step(p) ==
    \/ Receive(p)
    \/ SecureRoute(p)
    \/ UploadCheck(p)
    \/ UploadRead(p)
    \/ UploadCommit(p)
    \/ UploadRefresh(p)
    \/ UploadGetVS(p)
    \/ UploadAdd(p)
    \/ ListDocuments(p)
    \/ DeleteSelect(p)
    \/ DeleteRemove(p)
    \/ DeleteCommit(p)
    \/ AskGetVS(p)
    \/ AskChain(p)
    \/ AskSearch(p)

Next == \E p \in Procs : Step(p)

Spec == Init /\ [][Next]_vars

\* One request at a time: a request is received only when no other is in flight.
SeqNext == \E p \in Procs : (\A q \in Procs \ {p} : Idle(q)) /\ Step(p)

SeqSpec == Init /\ [][SeqNext]_vars

\* =============================================================== claims
\* The request in slot p takes a step out of position l.
Leaves(p, l) == pc[p] = l /\ pc'[p] # l

\* The handler of the request in slot p returns or raises in this step.
Returns(p) == pc[p] # "idle" /\ pc'[p] = "idle"

HasRecord(D, filename) == \E d \in D : d.filename = filename
RecordIds(D) == {d.id : d \in D}
Quiescent == \A p \in Procs : pc[p] = "idle"
ValidBearer(cred) == cred.scheme = "Bearer" /\ cred.credentials = SECRET_TOKEN
AfterCommit == {"refresh", "get_vectorstore", "aadd_documents"}

\* C1: every upload request that ends either ends in success, with its record
\* committed and its chunks in the vector index, or ends in an error and leaves
\* no record that it created in the documents table.
C1_AllOrNothing ==
    [][\A p \in Procs : (req[p].kind = "upload" /\ Returns(p)) =>
        \/ /\ out'.code = 200
           /\ \E d \in docs' : d.id = loc[p].doc /\ d.filename = req[p].filename
           /\ loc[p].docs \subseteq index'
        \/ /\ out'.code # 200
           /\ loc[p].doc \notin RecordIds(docs')]_vars

\* C2: in every reachable state no two rows of the documents table have the
\* same filename, whatever the interleaving of uploads and deletes.
C2_UniqueFilename ==
    \A d1 \in docs : \A d2 \in docs : d1.filename = d2.filename => d1 = d2

\* C2's case: two uploads of one filename have both passed the duplicate check;
\* one has committed its row and the other is about to commit.
C2_Witness ==
    \E p \in Procs : \E q \in Procs \ {p} :
        /\ req[p].kind = "upload" /\ req[q].kind = "upload"
        /\ req[p].filename = req[q].filename
        /\ pc[p] = "up_commit" /\ pc[q] = "up_refresh"

\* C3: an upload whose filename has a committed row when its duplicate check
\* runs is refused with 400 "Document already exists", and that step changes
\* neither the documents table nor the stored files nor the vector index.
C3_DuplicateRejected ==
    [][\A p \in Procs : (Leaves(p, "up_check") /\ HasRecord(docs, req[p].filename)) =>
        /\ Returns(p)
        /\ out'.code = 400 /\ out'.detail = "Document already exists"
        /\ UNCHANGED <<docs, files, index>>]_vars

\* C3's case: a duplicate upload has just been refused while the row is there.
C3_Witness ==
    /\ out.kind = "upload" /\ out.detail = "Document already exists"
    /\ docs # {}

C5_DeleteThenList ==
    /\ [](\A d \in docs : d.id \notin deleted)
    /\ [][\A p \in Procs :
            /\ Leaves(p, "del_remove") => loc[p].path \notin files'
            /\ (Leaves(p, "del_commit") /\ out'.code = 200) =>
                    /\ loc[p].doc \notin RecordIds(docs')
                    /\ loc[p].doc \in deleted'
            /\ Leaves(p, "list") => out'.list \cap deleted = {}
            /\ (Leaves(p, "del_select") /\ req[p].doc_id \notin RecordIds(docs)) =>
                    /\ Returns(p)
                    /\ out'.code = 404 /\ out'.detail = "Document not found"
                    /\ UNCHANGED <<docs, files, index>>]_vars

\* C5's case: a list has just answered after a delete returned, while another
\* row is still listed.
C5_Witness ==
    /\ out.kind = "list" /\ out.code = 200 /\ out.list # {}
    /\ deleted # {}

\* C6: no request is in a handler unless it carried the bearer scheme and the
\* secret token, on any endpoint; a step that answers 401 or 403 touches no
\* file, no row, no vector index row and starts no task.
C6_AuthBeforeHandler ==
    /\ [](\A p \in Procs : pc[p] # "idle" => ValidBearer(req[p].cred))
    /\ [][out'.code \in {401, 403} => UNCHANGED <<store, logs, pc, req, loc>>]_vars

\* C6's case: an upload with a wrong token has just been refused.
C6_Witness ==
    out.kind = "upload" /\ out.code = 401 /\ out.detail = "Invalid or missing token"

\* C7: an ask whose similarity search returns no row answers 200 with no
\* sources and a non-empty answer.
C7_NoHitsStillAnswers ==
    [][\A p \in Procs : (Leaves(p, "ask_search") /\ out'.ndocs = 0) =>
        /\ out'.code = 200
        /\ out'.sources = <<>>
        /\ out'.answer # ""]_vars

\* C7's case: an ask has just answered with the placeholder and no sources.
C7_Witness ==
    out.kind = "ask" /\ out.ndocs = 0 /\ out.answer = Placeholder

\* C8: between requests, a filename has a row exactly when its file is on
\* storage and an upload of it has stored its chunks and returned.
C8_RecordIffStoredAndIndexed ==
    Quiescent => \A f \in Names :
        HasRecord(docs, f) <=>
            (FilePath(f) \in files /\ \E u \in uploaded : u.filename = f)

\* C9 as stated: an upload that fails after its row was committed leaves the
\* written file on storage.
C9_FileKeptAfterCommit ==
    [][\A p \in Procs :
        (req[p].kind = "upload" /\ Returns(p) /\ out'.code = 500
            /\ out'.error \in AfterCommit /\ FilePath(req[p].filename) \in files)
        => FilePath(req[p].filename) \in files']_vars

\* C9 as amended: an upload that fails with a server error leaves no file at
\* its path, whether it failed before the commit or after it, and leaves the
\* documents table as it was.
C9_FileRemovedOnFailure ==
    [][\A p \in Procs :
        (req[p].kind = "upload" /\ Returns(p) /\ out'.code = 500)
        => /\ FilePath(req[p].filename) \notin files'
           /\ UNCHANGED docs]_vars

\* C9's case: an upload has just failed on get_vectorstore, after its commit;
\* its row is there and its file is gone.
C9_Witness ==
    /\ out.kind = "upload" /\ out.code = 500 /\ out.error = "get_vectorstore"
    /\ \E d \in docs : d.filepath \notin files

\* C10: an upload that returned success, and on whose row no delete_document
\* has run, has its file on storage, whatever other uploads do meanwhile.
C10_FileStaysUntilDelete ==
    \A u \in uploaded : u.id \notin removed => FilePath(u.filename) \in files
====
